---- MODULE Spec2Model ----
(***************************************************************************)
(* Kanji-Driller: the adaptive mastery tracker and the weakness-           *)
(* prioritised drill scheduler of src/ui.py (class MainWindow) and the     *)
(* samplers of src/logic.py.                                               *)
(*                                                                         *)
(* Numbers.  The program keeps mastery as a float rounded to 2 decimals.   *)
(* The model keeps it in cents (1/100 point, 0.0 -> 0, 100.0 -> 10000) and *)
(* computes the update in units of 1/80000 point, in which every decay,    *)
(* gain and penalty of the code is an integer, so the arithmetic is exact. *)
(* round(x, 2) is exact except when x lies exactly half-way between two    *)
(* cents: there the binary float decides, and the model admits both        *)
(* neighbours (parameter tieUp).                                           *)
(***************************************************************************)
EXTENDS Integers, Sequences, FiniteSets, TLC

VARIABLES
    kanji_stats,          \* self.kanji_stats: item key -> entry (dict of dicts)
    profile_data,         \* self.profile_data (the two pw counters)
    profile_file,         \* profile.json on disk: [status, doc]
    stats_file,           \* kanji_stats.json on disk: [status, doc]
    drillFilters,         \* self.drillFilters
    meaning_mode,         \* self.meaning_mode
    reading_type,         \* self.reading_type
    df_f,                 \* self.df_f: the filtered pool, a sequence of item keys
    currentSample,        \* self.currentSample: a sequence of item keys
    currentQuestionIndex, \* self.currentQuestionIndex
    totalQuestions,       \* self.totalQuestions
    currentRow,           \* self.currentRow: item key or "None"
    answer_buttons,       \* self.answer_buttons: "absent", "enabled", "disabled" or "destroyed"
    meaning_input,        \* self.meaning_input: "absent", "enabled" or "disabled"
    question_widget,      \* the widget in TrainMainLayout: "none", "mc" or "writing"
    page,                 \* self.stack.currentIndex(): 0 main, 1 drill menu, 2 train, 3 results
    timers,               \* pending QTimer.singleShot callbacks of show_overlay, each
                          \* tagged with the ordinal of the session that armed it
    pw_current_session_id,\* self._pw_current_session_id (0 while unset)
    pw_cooldown_sessions, \* self._pw_cooldown_sessions (0 while unset)
    session_results,      \* self.session_results: sequence of [kanji, correct]
    sessionState,         \* history: "Idle", "InProgress" or "Complete"
    answered,             \* history: question indices of the running session with a recorded answer
    sessionOrdinal,       \* history: number of sessions started so far
    nAnswers,             \* history: number of answers recorded so far
    nRestarts,            \* history: number of program restarts so far
    nChanges,             \* history: number of filter changes so far
    nBacks,               \* history: number of Back / Escape presses so far
    lastOp                \* history: the operation that produced this state

vars == <<kanji_stats, profile_data, profile_file, stats_file, drillFilters,
          meaning_mode, reading_type, df_f, currentSample, currentQuestionIndex,
          totalQuestions, currentRow, answer_buttons, meaning_input, question_widget,
          page, timers, pw_current_session_id, pw_cooldown_sessions, session_results,
          sessionState, answered, sessionOrdinal, nAnswers, nRestarts, nChanges, nBacks,
          lastOp>>

-----------------------------------------------------------------------------
(* Bounds of the model                                                     *)

MaxAnswers == 5     \* answers recorded in one run of the session machine
MaxSessions == 2    \* sessions started in one run
MaxTimers == 2      \* result overlays whose timer is pending at one time
MaxRestarts == 1    \* program restarts in one run
MaxChanges == 1     \* changes of the drill menu's controls in one run
MaxBacks == 1       \* Back / Escape presses in one run

\* The session machine follows one outcome of the random source: every
\* random.random() returns 0.0 and df.sample leaves the rows in pool order.
\* SpecSample explores every outcome of the two samplers.
RandomDraw == "zero"

-----------------------------------------------------------------------------
(* The stats store                                                         *)

Systems == {"JLPT", "WaniKani"}

Modes == {"Meaning:writing", "Meaning:multiple_choice", "Reading:kunyomi", "Reading:onyomi"}

Fields == {"right", "wrong", "streak", "pw_right", "pw_wrong", "pw_streak",
           "pw_last_seen", "pw_last_seen_session", "mastery", "mastery_streak",
           "mastery_last_seen"}

EmptyDict == [x \in {} |-> 0]

bucket_defaults == [f \in Fields |-> 0]

setdefault(d, key, val) == IF key \in DOMAIN d THEN d ELSE d @@ (key :> val)

\* Fault: every field of a bucket that exists is reset to its default
fill_bucket_reset(b) == bucket_defaults

fill_bucket(b) == [f \in (DOMAIN b) \cup Fields |-> IF f \in DOMAIN b THEN b[f] ELSE 0]

fill_system(s) ==
    [m \in (DOMAIN s) \cup Modes |->
        IF m \notin Modes THEN s[m]
        ELSE IF m \in DOMAIN s THEN fill_bucket(s[m])
        ELSE bucket_defaults]

ensure_kanji_entry(stats, k) ==
    LET e0 == IF k \in DOMAIN stats
              THEN stats[k]
              ELSE [total_encounters |-> 0, JLPT |-> EmptyDict, WaniKani |-> EmptyDict]
        e1 == setdefault(setdefault(setdefault(e0, "total_encounters", 0),
                                    "JLPT", EmptyDict), "WaniKani", EmptyDict)
        e2 == [x \in DOMAIN e1 |-> IF x \in Systems THEN fill_system(e1[x]) ELSE e1[x]]
    IN  [i \in (DOMAIN stats) \cup {k} |-> IF i = k THEN e2 ELSE stats[i]]

_current_mode_key(drill, mmode, rtype) ==
    IF drill = "Meaning"
    THEN (IF mmode = "writing" THEN "Meaning:writing" ELSE "Meaning:multiple_choice")
    ELSE (IF rtype = "kunyomi" THEN "Reading:kunyomi" ELSE "Reading:onyomi")

-----------------------------------------------------------------------------
(* The mastery engine (units of 1/80000 point; 800 units are one cent)     *)

Max(a, b) == IF a >= b THEN a ELSE b

Min(a, b) == IF a <= b THEN a ELSE b

MIN_AGE_FOR_DECAY == 20

round2(x, tieUp) ==
    LET q == x \div 800
        r == x % 800
    IN  IF r > 400 THEN q + 1
        ELSE IF r < 400 THEN q
        ELSE IF tieUp THEN q + 1 ELSE q

\* Fault: the minimum-age guard is missing
decayed_unguarded(m, age) ==
    IF age > 0
    THEN Max(0, m - (IF age < 200 THEN age * 400 ELSE age * 800))
    ELSE m

decayed(m, age) ==
    IF age >= MIN_AGE_FOR_DECAY
    THEN Max(0, m - (IF age < 200 THEN age * 400 ELSE age * 800))
    ELSE m

\* Fault: one of the two conditions of the gate is enough
certified_either(streak, total_enc) == streak >= 7 \/ total_enc >= 25

\* The certification gate
certified(streak, total_enc) == streak >= 7 /\ total_enc >= 25

after_correct(m, drill, pw, streak, total_enc) ==
    LET base == IF drill = "Reading" THEN 14 ELSE 10
        gain == IF pw THEN ((8000000 - m) * base) \div 800 ELSE ((8000000 - m) * base) \div 400
        m1   == m + gain
    IN  IF m1 >= 99 * 80000
        THEN (IF certified(streak, total_enc) THEN 100 * 80000 ELSE Min(m1, 99 * 80000))
        ELSE m1

\* Fault: the penalty is not floored at 0
after_wrong_unfloored(m) == m - Max(12 * 80000, (m * 3) \div 20)

\* Fault: the penalty is 12 points whatever the mastery
after_wrong_flat(m) == Max(0, m - 12 * 80000)

\* Fault: a wrong answer costs nothing
after_wrong_none(m) == m

after_wrong(m) == Max(0, m - Max(12 * 80000, (m * 3) \div 20))

update_mastery(bucket, entry, now_q, is_correct, drill, pw, tieUp) ==
    LET mastery     == bucket["mastery"] * 800
        last_seen_q == bucket["mastery_last_seen"]
        age         == IF last_seen_q > 0 THEN Max(0, now_q - last_seen_q) ELSE 0
        m0          == decayed(mastery, age)
        streak1     == IF is_correct THEN bucket["mastery_streak"] + 1 ELSE 0
        m1          == IF is_correct
                       THEN after_correct(m0, drill, pw, streak1, entry["total_encounters"])
                       ELSE after_wrong(m0)
    IN  [bucket EXCEPT !["mastery_streak"] = streak1,
                       !["mastery"] = round2(m1, tieUp),
                       !["mastery_last_seen"] = now_q]

\* Fault: an answer is counted twice
count_question_twice(prof) == prof.pw_question_counter + 2

\* pw_question_counter after the answer has been counted (prioritization enabled)
count_question(prof) == prof.pw_question_counter + 1

\* Fault: the encounter is not counted
count_encounter_not(entry) == entry

\* entry["total_encounters"] = int(entry.get("total_encounters", 0)) + 1
count_encounter(entry) == [entry EXCEPT !["total_encounters"] = @ + 1]

\* Fault: a wrong answer leaves the streak
count_answer_keeps_streak(b, is_correct) ==
    IF is_correct
    THEN [b EXCEPT !["right"] = @ + 1, !["streak"] = @ + 1]
    ELSE [b EXCEPT !["wrong"] = @ + 1]

\* right + 1 and streak + 1, or wrong + 1 and streak = 0
count_answer(b, is_correct) ==
    IF is_correct
    THEN [b EXCEPT !["right"] = @ + 1, !["streak"] = @ + 1]
    ELSE [b EXCEPT !["wrong"] = @ + 1, !["streak"] = 0]

\* Fault: the bucket is written under every mode key of the system
put_bucket_every_mode(entry, sysn, mk, b) ==
    [entry EXCEPT ![sysn] = [md \in DOMAIN @ |-> b]]

\* bucket is entry[system_name][mode_key], updated in place
put_bucket(entry, sysn, mk, b) == [entry EXCEPT ![sysn] = [@ EXCEPT ![mk] = b]]

update_stats_and_profile(stats, prof, filters, mmode, rtype, sess_id, k, is_correct, tieUp) ==
    LET s1    == ensure_kanji_entry(stats, k)
        entry == count_encounter(s1[k])
        sysn  == filters.system
        mk    == _current_mode_key(filters.drill, mmode, rtype)
        b0    == entry[sysn][mk]
        b1    == count_answer(b0, is_correct)
        pw    == filters.prioritize_weakness
        now   == count_question(prof)
        b2    == [b1 EXCEPT !["pw_last_seen"] = now, !["pw_last_seen_session"] = sess_id]
        b3    == IF is_correct
                 THEN [b2 EXCEPT !["pw_right"] = @ + 1, !["pw_streak"] = @ + 1]
                 ELSE [b2 EXCEPT !["pw_wrong"] = @ + 1, !["pw_streak"] = 0]
        b4    == update_mastery(b3, entry, now, is_correct, filters.drill, pw, tieUp)
        bN    == IF pw THEN b4 ELSE b1
        eN    == put_bucket(entry, sysn, mk, bN)
    IN  [stats |-> [s1 EXCEPT ![k] = eN],
         prof  |-> IF pw THEN [prof EXCEPT !.pw_question_counter = now] ELSE prof]

-----------------------------------------------------------------------------
(* The item catalog (kanji.json) and the filtered pool                     *)

Catalog == <<"k1", "k2", "k3", "k4">>

\* Every item is of level N5; k4 has no kun reading (readings_kun is null)
jlpt_new(k) == 5

meanings_notna(k) == TRUE

readings_notna(k) == k # "k4"

JlptLevels == {5}

filterDataFrame(levels, drill) ==
    LET keep(k) == /\ jlpt_new(k) \in levels
                   /\ IF drill = "Meaning" THEN meanings_notna(k) ELSE readings_notna(k)
    IN  SelectSeq(Catalog, keep)

RECURSIVE concat_levels(_, _, _)
concat_levels(levels, drill, upto) ==
    IF upto > 5 THEN <<>>
    ELSE (IF upto \in levels THEN filterDataFrame({upto}, drill) ELSE <<>>)
         \o concat_levels(levels, drill, upto + 1)

build_filtered_df(filters) == concat_levels(filters.jlpt_levels, filters.drill, 1)

Range(s) == {s[i] : i \in DOMAIN s}

RemoveAt(s, i) == [j \in 1..(Len(s) - 1) |-> IF j < i THEN s[j] ELSE s[j + 1]]

-----------------------------------------------------------------------------
(* The sampling weight, an exact fraction <<numerator, denominator>>       *)

\* Fault: the share of right answers is taken for the share of wrong ones
wrong_rate_of_right(r, w) == <<r + 1, r + w + 2>>

\* wrong_rate = (w + 1.0) / (r + w + 2.0)
wrong_rate(r, w) == <<w + 1, r + w + 2>>

\* stale_mult = 1.0 + min(age, cap) / cap, cap = 200.0
stale_mult(age) == <<200 + Min(age, 200), 200>>

\* Fault: the factor ramps down from 1.0 instead of up from 0.20
session_cooldown_factor_down(sess_age, cool_sess) ==
    IF cool_sess > 0 /\ sess_age <= cool_sess
    THEN <<5 * cool_sess - 4 * sess_age, 5 * cool_sess>>
    ELSE <<1, 1>>

\* session_cooldown_factor = 0.20 + 0.80 * (sess_age / cool_sess), or 1.0
session_cooldown_factor(sess_age, cool_sess) ==
    IF cool_sess > 0 /\ sess_age <= cool_sess
    THEN <<cool_sess + 4 * sess_age, 5 * cool_sess>>
    ELSE <<1, 1>>

\* Fault: the weight is returned as an int
clamp_weight_int(num, den) ==
    IF num * 10000 < den THEN <<0, 1>> ELSE <<num \div den, 1>>

\* max(0.0001, float(weight))
clamp_weight(num, den) == IF num * 10000 < den THEN <<1, 10000>> ELSE <<num, den>>

\* The ages _pw_weight_for_row works with
pw_age(bucket, now) == Max(0, now - bucket["pw_last_seen"])

pw_sess_age(bucket, now_sess) == Max(0, now_sess - bucket["pw_last_seen_session"])

_pw_weight_for_row(bucket, now, now_sess, cool_sess) ==
    LET wr     == wrong_rate(bucket["pw_right"], bucket["pw_wrong"])
        sm     == stale_mult(pw_age(bucket, now))
        factor == session_cooldown_factor(pw_sess_age(bucket, now_sess), cool_sess)
        \* floor + wrong_rate * stale_mult, floor = 0.08 = 16 / 200
        num0   == 16 * wr[2] + wr[1] * sm[1]
        den0   == 200 * wr[2]
    IN  clamp_weight(num0 * factor[1], den0 * factor[2])

\* The indices _weighted_choice_index can return.  rnd = "any": for some value of
\* random.random() in [0, 1): index i is returned when the draw r lies in
\* (acc[i-1], acc[i]], and the first index also when r = 0.  rnd = "zero": for
\* random.random() = 0.0.  The weights are never negative, so the total is <= 0
\* exactly when every weight is.
_weighted_choice_index(weights, rnd) ==
    IF \A i \in DOMAIN weights : weights[i][1] <= 0
    THEN (IF rnd = "zero" THEN {1} ELSE DOMAIN weights)
    ELSE IF rnd = "zero" THEN {1}
    ELSE {i \in DOMAIN weights : i = 1 \/ weights[i][1] > 0}

\* Fault: the picked row stays in the list
pop_pick_kept(rows, i) == rows

\* rows.pop(pick_pos) and weights.pop(pick_pos) after a pick
pop_pick(rows, i) == RemoveAt(rows, i)

RECURSIVE draw_positions(_, _, _, _)
draw_positions(rows, weights, n, rnd) ==
    IF n = 0 THEN {<<>>}
    ELSE UNION { { <<rows[i]>> \o rest :
                     rest \in draw_positions(pop_pick(rows, i), RemoveAt(weights, i),
                                             n - 1, rnd) } :
                 i \in _weighted_choice_index(weights, rnd) }

\* chosen_positions, for every outcome of the draws of get_pw_weighted_sample(df, n)
chosen_positions(len, weights, n, rnd) ==
    draw_positions([i \in 1..len |-> i], weights, Max(1, Min(n, len)), rnd)

\* df.iloc[positions]
iloc(df, pos) == [j \in 1..Len(pos) |-> df[pos[j]]]

\* Every sample get_pw_weighted_sample(df, n) can return, given the weights of the rows
get_pw_weighted_sample(df, weights, n, rnd) ==
    IF Len(df) = 0 THEN {df}
    ELSE { iloc(df, pos) : pos \in chosen_positions(Len(df), weights, n, rnd) }

\* Every sample getRandomSample(df_f, count) can return: df.sample(n) draws n rows
\* without replacement, in any order (rnd = "zero": the rows come out in pool order)
sample_positions(len, n, rnd) ==
    IF rnd = "zero" THEN {[j \in 1..n |-> j]}
    ELSE { p \in [1..n -> 1..len] : \A a, b \in 1..n : a # b => p[a] # p[b] }

getRandomSample(df, count, rnd) ==
    IF Len(df) = 0 \/ count <= 0 THEN {<<>>}
    ELSE { iloc(df, pos) : pos \in sample_positions(Len(df), Min(count, Len(df)), rnd) }

\* The store after _pw_weight_for_row has run over rows 1..upto of df
RECURSIVE ensure_rows(_, _, _)
ensure_rows(stats, df, upto) ==
    IF upto = 0 THEN stats
    ELSE ensure_kanji_entry(ensure_rows(stats, df, upto - 1), df[upto])

\* Fault: the thresholds are compared with > instead of >=
cooldown_tier_strict(final_count, max_available) ==
    IF max_available <= 0 THEN 0
    ELSE IF final_count * 100 > 40 * max_available THEN 0
    ELSE IF final_count * 100 > 25 * max_available THEN 1
    ELSE IF final_count * 100 > 12 * max_available THEN 2
    ELSE 3

cooldown_tier(final_count, max_available) ==
    IF max_available <= 0 THEN 0
    ELSE IF final_count * 100 >= 40 * max_available THEN 0
    ELSE IF final_count * 100 >= 25 * max_available THEN 1
    ELSE IF final_count * 100 >= 12 * max_available THEN 2
    ELSE 3

-----------------------------------------------------------------------------
(* Construction: MainWindow.__init__ on a fresh installation               *)

DefaultFilters ==
    [system |-> "JLPT", drill |-> "Meaning", jlpt_levels |-> {5}, count |-> 4,
     max_count |-> 79, prioritize_weakness |-> TRUE]

EmptyStore == [k \in {} |-> 0]

\* load_or_create_stats: the store read from the file, every record upgraded
RECURSIVE ensure_all(_, _)
ensure_all(stats, keys) ==
    IF keys = {} THEN stats
    ELSE LET k == CHOOSE x \in keys : TRUE
         IN  ensure_all(ensure_kanji_entry(stats, k), keys \ {k})

\* A document on disk: absent, not parseable, or holding a JSON object
Missing == [status |-> "missing", doc |-> EmptyDict]

Unreadable == [status |-> "unreadable", doc |-> EmptyDict]

Saved(doc) == [status |-> "ok", doc |-> doc]

load_or_create_stats(file) ==
    IF file.status # "ok" THEN EmptyStore
    ELSE ensure_all(file.doc, DOMAIN file.doc)

\* Fault: the counters of a readable profile are not taken over
load_or_create_profile_fresh(file) ==
    setdefault(setdefault(EmptyDict, "pw_question_counter", 0), "pw_session_counter", 0)

load_or_create_profile(file) ==
    LET p0 == IF file.status # "ok" THEN EmptyDict ELSE file.doc
    IN  setdefault(setdefault(p0, "pw_question_counter", 0), "pw_session_counter", 0)

NoOp == [op |-> "init", ok |-> TRUE, armedBy |-> 0]

\* The state __init__ leaves, given the two documents on disk
Construct(sfile, pfile) ==
    /\ kanji_stats = load_or_create_stats(sfile)
    /\ stats_file = Saved(kanji_stats)
    /\ profile_data = load_or_create_profile(pfile)
    /\ profile_file = Saved(profile_data)
    /\ drillFilters = [DefaultFilters EXCEPT !.max_count = Len(build_filtered_df(DefaultFilters))]
    /\ meaning_mode = "multiple_choice"
    /\ reading_type = "kunyomi"
    /\ df_f = build_filtered_df(DefaultFilters)
    /\ currentSample \in getRandomSample(df_f, DefaultFilters.count, RandomDraw)
    /\ currentQuestionIndex = 0
    /\ totalQuestions = 0
    /\ currentRow = "None"
    /\ answer_buttons = "absent"
    /\ meaning_input = "absent"
    /\ question_widget = "none"
    /\ page = 0
    /\ timers = <<>>
    /\ pw_current_session_id = 0
    /\ pw_cooldown_sessions = 0
    /\ session_results = <<>>

Init ==
    /\ Construct(Missing, Missing)
    /\ sessionState = "Idle"
    /\ answered = {}
    /\ sessionOrdinal = 0
    /\ nAnswers = 0
    /\ nRestarts = 0
    /\ nChanges = 0
    /\ nBacks = 0
    /\ lastOp = NoOp

-----------------------------------------------------------------------------
(* showQuestion, as the values it leaves                                   *)

\* The written-meaning question leaves self.answer_buttons as it was, while
\* clear_layout has detached the widget that owns those buttons: whether they are
\* still there to be queried (alive) or have been destroyed with their widget
\* rests on the garbage collector
showQuestion(idx, total, sample, stats, filters, mmode, alive) ==
    IF idx >= total \/ Len(sample) = 0 \/ idx >= Len(sample)
    THEN [finished |-> TRUE, row |-> currentRow, buttons |-> answer_buttons,
          input |-> meaning_input, widget |-> question_widget, stats |-> stats]
    ELSE IF filters.drill = "Meaning" /\ mmode = "writing"
    THEN [finished |-> FALSE, row |-> sample[idx + 1],
          buttons |-> IF alive \/ answer_buttons = "absent" THEN answer_buttons
                      ELSE "destroyed",
          input |-> "enabled", widget |-> "writing",
          stats |-> ensure_kanji_entry(stats, sample[idx + 1])]
    ELSE [finished |-> FALSE, row |-> sample[idx + 1], buttons |-> "enabled",
          input |-> meaning_input, widget |-> "mc", stats |-> stats]

-----------------------------------------------------------------------------
(* Operations                                                              *)

Op(name, ok, armedBy) == [op |-> name, ok |-> ok, armedBy |-> armedBy]

History(name, ok, armedBy) == lastOp' = Op(name, ok, armedBy)

\* mainMenuDrillButton: main menu -> drill menu; _on_stack_changed(1) rebuilds the pool
GoDrillMenu ==
    /\ page = 0
    /\ page' = 1
    /\ df_f' = build_filtered_df(drillFilters)
    /\ drillFilters' = [drillFilters EXCEPT !.max_count = Len(df_f')]
    /\ History("GoDrillMenu", TRUE, 0)
    /\ UNCHANGED <<kanji_stats, profile_data, profile_file, stats_file, meaning_mode,
                   reading_type, currentSample, currentQuestionIndex, totalQuestions,
                   currentRow, answer_buttons, meaning_input, question_widget, timers,
                   pw_current_session_id, pw_cooldown_sessions, session_results,
                   sessionState, answered, sessionOrdinal, nAnswers, nRestarts, nChanges, nBacks>>

\* Escape (keyPressEvent) and the Back buttons: 1 -> 0, 2 -> 1, results -> 1
Back ==
    /\ page \in {1, 2, 3}
    /\ nBacks < MaxBacks
    /\ nBacks' = nBacks + 1
    /\ page' = IF page = 1 THEN 0 ELSE 1
    /\ df_f' = IF page' = 1 THEN build_filtered_df(drillFilters) ELSE df_f
    /\ drillFilters' = IF page' = 1 THEN [drillFilters EXCEPT !.max_count = Len(df_f')]
                       ELSE drillFilters
    /\ History("Back", TRUE, 0)
    /\ UNCHANGED <<kanji_stats, profile_data, profile_file, stats_file, meaning_mode,
                   reading_type, currentSample, currentQuestionIndex, totalQuestions,
                   currentRow, answer_buttons, meaning_input, question_widget, timers,
                   pw_current_session_id, pw_cooldown_sessions, session_results,
                   sessionState, answered, sessionOrdinal, nAnswers, nRestarts, nChanges>>

\* The controls of the drill menu page
level_filter(level) ==
    /\ page = 1
    /\ nChanges < MaxChanges
    /\ LET levels == IF level \in drillFilters.jlpt_levels
                     THEN drillFilters.jlpt_levels \ {level}
                     ELSE drillFilters.jlpt_levels \cup {level}
           f1     == [drillFilters EXCEPT !.jlpt_levels = levels]
       IN  /\ df_f' = build_filtered_df(f1)
           /\ drillFilters' = [f1 EXCEPT !.max_count = Len(df_f')]
    /\ nChanges' = nChanges + 1
    /\ History("level_filter", TRUE, 0)
    /\ UNCHANGED <<kanji_stats, profile_data, profile_file, stats_file, meaning_mode,
                   reading_type, currentSample, currentQuestionIndex, totalQuestions,
                   currentRow, answer_buttons, meaning_input, question_widget, page, timers,
                   pw_current_session_id, pw_cooldown_sessions, session_results,
                   sessionState, answered, sessionOrdinal, nAnswers, nRestarts, nBacks>>

\* state == Qt.CheckState.Checked compares the int the signal carries with an enum:
\* bindings in which that comparison is never true leave the setting False
prioritizeweakness_changed ==
    /\ page = 1
    /\ nChanges < MaxChanges
    /\ \E v \in {~drillFilters.prioritize_weakness, FALSE} :
          drillFilters' = [drillFilters EXCEPT !.prioritize_weakness = v]
    /\ nChanges' = nChanges + 1
    /\ History("prioritizeweakness_changed", TRUE, 0)
    /\ UNCHANGED <<kanji_stats, profile_data, profile_file, stats_file, meaning_mode,
                   reading_type, df_f, currentSample, currentQuestionIndex, totalQuestions,
                   currentRow, answer_buttons, meaning_input, question_widget, page, timers,
                   pw_current_session_id, pw_cooldown_sessions, session_results,
                   sessionState, answered, sessionOrdinal, nAnswers, nRestarts, nBacks>>

filterdrill_changed(text) ==
    /\ page = 1
    /\ nChanges < MaxChanges
    /\ text # drillFilters.drill
    /\ df_f' = build_filtered_df([drillFilters EXCEPT !.drill = text])
    /\ drillFilters' = [drillFilters EXCEPT !.drill = text, !.max_count = Len(df_f')]
    /\ nChanges' = nChanges + 1
    /\ History("filterdrill_changed", TRUE, 0)
    /\ UNCHANGED <<kanji_stats, profile_data, profile_file, stats_file, meaning_mode,
                   reading_type, currentSample, currentQuestionIndex, totalQuestions,
                   currentRow, answer_buttons, meaning_input, question_widget, page, timers,
                   pw_current_session_id, pw_cooldown_sessions, session_results,
                   sessionState, answered, sessionOrdinal, nAnswers, nRestarts, nBacks>>

meaningmode_changed(text) ==
    /\ page = 1
    /\ nChanges < MaxChanges
    /\ drillFilters.drill = "Meaning"
    /\ text # meaning_mode
    /\ meaning_mode' = text
    /\ nChanges' = nChanges + 1
    /\ History("meaningmode_changed", TRUE, 0)
    /\ UNCHANGED <<kanji_stats, profile_data, profile_file, stats_file, drillFilters,
                   reading_type, df_f, currentSample, currentQuestionIndex, totalQuestions,
                   currentRow, answer_buttons, meaning_input, question_widget, page, timers,
                   pw_current_session_id, pw_cooldown_sessions, session_results,
                   sessionState, answered, sessionOrdinal, nAnswers, nRestarts, nBacks>>

\* The weights get_pw_weighted_sample computes for the rows of df, in pool order
row_weights(df, stats, filters, mmode, rtype, prof, cool_sess) ==
    [i \in 1..Len(df) |->
        _pw_weight_for_row(
            stats[df[i]][filters.system][_current_mode_key(filters.drill, mmode, rtype)],
            prof.pw_question_counter, prof.pw_session_counter, cool_sess)]

\* wrong_rate = (w + 1.0) / (r + w + 2.0) raises ZeroDivisionError
weight_raises(bucket) == bucket["pw_right"] + bucket["pw_wrong"] + 2 = 0

\* The first row of df at which _pw_weight_for_row raises, 0 if it raises at none
first_raising_row(df, stats, filters, mmode, rtype) ==
    LET mk  == _current_mode_key(filters.drill, mmode, rtype)
        bad == {i \in DOMAIN df :
                  weight_raises(ensure_kanji_entry(stats, df[i])[df[i]][filters.system][mk])}
    IN  IF bad = {} THEN 0 ELSE CHOOSE i \in bad : \A j \in bad : i <= j

\* Fault: the except branch hands back the pool as it is
fallback_whole_pool(df, n, rnd) == {df}

\* except Exception: return getRandomSample(df, n), n being max(1, min(n, len(df)))
fallback_sample(df, n, rnd) == getRandomSample(df, Max(1, Min(n, Len(df))), rnd)

\* Fault: three cards are accepted
too_few_three(final_count) == final_count < 3

\* final_count < 4: "Require at least 4 cards to start a drill"
too_few(final_count) == final_count < 4

\* Fault: a session start is counted twice
count_session_twice(prof) == [prof EXCEPT !.pw_session_counter = @ + 2]

\* The profile after DrillStart has counted the session (prioritization enabled)
count_session(prof) == [prof EXCEPT !.pw_session_counter = @ + 1]

\* DrillStart, rows being what self.build_filtered_df() returns for the filters set
DrillStartOn(rows) ==
    /\ page \in {1, 3}
    /\ \/ \* "No cards available"
          /\ drillFilters.max_count < 1
          /\ History("DrillStart", FALSE, 0)
          /\ UNCHANGED <<kanji_stats, profile_data, profile_file, stats_file, drillFilters,
                         meaning_mode, reading_type, df_f, currentSample,
                         currentQuestionIndex, totalQuestions, currentRow, answer_buttons,
                         meaning_input, question_widget, page, timers,
                         pw_current_session_id, pw_cooldown_sessions, session_results,
                         sessionState, answered, sessionOrdinal, nAnswers, nRestarts,
                         nChanges, nBacks>>
       \/ \* "Require at least 4 cards"
          /\ drillFilters.max_count >= 1
          /\ too_few(Min(Max(4, drillFilters.count), Len(rows)))
          /\ df_f' = rows
          /\ History("DrillStart", FALSE, 0)
          /\ UNCHANGED <<kanji_stats, profile_data, profile_file, stats_file, drillFilters,
                         meaning_mode, reading_type, currentSample,
                         currentQuestionIndex, totalQuestions, currentRow, answer_buttons,
                         meaning_input, question_widget, page, timers,
                         pw_current_session_id, pw_cooldown_sessions, session_results,
                         sessionState, answered, sessionOrdinal, nAnswers, nRestarts,
                         nChanges, nBacks>>
       \/ \* the session starts
          /\ drillFilters.max_count >= 1
          /\ sessionOrdinal < MaxSessions
          /\ LET pool        == rows
                 final_count == Min(Max(4, drillFilters.count), Len(pool))
                 pw          == drillFilters.prioritize_weakness
                 tier        == cooldown_tier(final_count, Len(pool))
                 prof1       == IF pw THEN count_session(profile_data) ELSE profile_data
                 filters1    == [drillFilters EXCEPT !.count = final_count]
                 raised      == IF pw
                                THEN first_raising_row(pool, kanji_stats, filters1,
                                                       meaning_mode, reading_type)
                                ELSE 0
                 stats1      == IF pw
                                THEN ensure_rows(kanji_stats, pool,
                                                 IF raised > 0 THEN raised ELSE Len(pool))
                                ELSE kanji_stats
                 samples     == IF pw
                                THEN (IF raised > 0
                                      THEN fallback_sample(pool, final_count, RandomDraw)
                                      ELSE get_pw_weighted_sample(pool,
                                               row_weights(pool, stats1, filters1,
                                                           meaning_mode, reading_type,
                                                           prof1, tier),
                                               final_count, RandomDraw))
                                ELSE getRandomSample(pool, final_count, RandomDraw)
             IN  /\ ~too_few(final_count)
                 /\ df_f' = pool
                 /\ pw_cooldown_sessions' = tier
                 /\ profile_data' = prof1
                 /\ profile_file' = IF pw THEN Saved(prof1) ELSE profile_file
                 /\ pw_current_session_id' = IF pw THEN prof1.pw_session_counter ELSE 0
                 /\ drillFilters' = filters1
                 /\ totalQuestions' = final_count
                 /\ \E sample \in samples :
                       /\ currentSample' = sample
                       /\ IF Len(sample) < 4
                          THEN \* the second "Require at least 4 cards" return
                               /\ kanji_stats' = stats1
                               /\ History("DrillStart", FALSE, 0)
                               /\ UNCHANGED <<currentRow, answer_buttons, meaning_input,
                                              question_widget, currentQuestionIndex,
                                              session_results, page, sessionState,
                                              answered, sessionOrdinal>>
                          ELSE \E alive \in BOOLEAN :
                               LET q == showQuestion(0, final_count, sample, stats1,
                                                     filters1, meaning_mode, alive)
                               IN  /\ kanji_stats' = q.stats
                                   /\ currentRow' = q.row
                                   /\ answer_buttons' = q.buttons
                                   /\ meaning_input' = q.input
                                   /\ question_widget' = q.widget
                                   /\ currentQuestionIndex' = 0
                                   /\ session_results' = <<>>
                                   /\ page' = 2
                                   /\ sessionState' = "InProgress"
                                   /\ answered' = {}
                                   /\ sessionOrdinal' = sessionOrdinal + 1
                                   /\ History("DrillStart", TRUE, 0)
                 /\ UNCHANGED <<stats_file, meaning_mode, reading_type, timers, nAnswers,
                                nRestarts, nChanges, nBacks>>

\* The Drill button of the drill menu, and New Session / Return on the results page
DrillStart == DrillStartOn(build_filtered_df(drillFilters))

\* checkAnswer and submit_meaning_written: what recording one answer does
record_answer(is_correct, tieUp) ==
    /\ nAnswers < MaxAnswers
    /\ Len(timers) < MaxTimers
    /\ currentRow # "None"
    /\ LET u == update_stats_and_profile(kanji_stats, profile_data, drillFilters,
                                         meaning_mode, reading_type,
                                         pw_current_session_id, currentRow, is_correct,
                                         tieUp)
       IN  /\ kanji_stats' = u.stats
           /\ stats_file' = Saved(u.stats)
           /\ profile_data' = u.prof
           /\ profile_file' = Saved(u.prof)
    /\ session_results' = Append(session_results,
                                 [kanji |-> currentRow, correct |-> is_correct])
    /\ timers' = Append(timers, sessionOrdinal)
    /\ answered' = IF sessionState = "InProgress"
                   THEN answered \cup {currentQuestionIndex} ELSE answered
    /\ nAnswers' = nAnswers + 1
    /\ UNCHANGED <<drillFilters, meaning_mode, reading_type, df_f, currentSample,
                   currentQuestionIndex, totalQuestions, currentRow, question_widget,
                   page, pw_current_session_id, pw_cooldown_sessions, sessionState,
                   sessionOrdinal, nRestarts, nChanges, nBacks>>

\* An answer button clicked, or a key 1-4 (keyPressEvent) while its button is enabled;
\* keyPressEvent does not look at the page shown
checkAnswer ==
    /\ answer_buttons = "enabled"
    /\ answer_buttons' = "disabled"
    /\ \E is_correct \in BOOLEAN, tieUp \in BOOLEAN :
          /\ record_answer(is_correct, tieUp)
          /\ History("checkAnswer", TRUE, 0)
    /\ UNCHANGED meaning_input

\* Enter in the written-meaning input of the question on the train page
submit_meaning_written ==
    /\ page = 2
    /\ question_widget = "writing"
    /\ meaning_input = "enabled"
    /\ meaning_input' = "disabled"
    /\ \E is_correct \in BOOLEAN, tieUp \in BOOLEAN :
          /\ record_answer(is_correct, tieUp)
          /\ History("submit_meaning_written", TRUE, 0)
    /\ UNCHANGED answer_buttons

\* A result-overlay timer fires: _advance_after_popup, showQuestion, finishTraining
_advance_after_popup ==
    \E i \in DOMAIN timers :
       /\ timers' = RemoveAt(timers, i)
       /\ currentQuestionIndex' = currentQuestionIndex + 1
       /\ \E alive \in BOOLEAN :
          LET q == showQuestion(currentQuestionIndex + 1, totalQuestions, currentSample,
                                kanji_stats, drillFilters, meaning_mode, alive)
          IN  /\ kanji_stats' = q.stats
              /\ currentRow' = q.row
              /\ answer_buttons' = q.buttons
              /\ meaning_input' = q.input
              /\ question_widget' = q.widget
              /\ page' = IF q.finished THEN 3 ELSE page
              /\ sessionState' = IF q.finished THEN "Complete" ELSE sessionState
       /\ History("_advance_after_popup", TRUE, timers[i])
       /\ UNCHANGED <<profile_data, profile_file, stats_file, drillFilters, meaning_mode,
                      reading_type, df_f, currentSample, totalQuestions,
                      pw_current_session_id, pw_cooldown_sessions, session_results,
                      answered, sessionOrdinal, nAnswers, nRestarts, nChanges, nBacks>>

\* Repeat Failures / Backspace on the results page
_repeat_failures_from_results ==
    /\ page = 3
    /\ LET wrongs      == {session_results[i].kanji : i \in
                             {j \in DOMAIN session_results : ~session_results[j].correct}}
           base_df     == IF Len(df_f) = 0 THEN build_filtered_df(drillFilters) ELSE df_f
           in_wrongs(k) == k \in wrongs
           df_failures == SelectSeq(base_df, in_wrongs)
           n_fail      == Len(df_failures)
           allow_under_four == drillFilters.drill = "Meaning" /\ meaning_mode = "writing"
           refused     == \/ wrongs = {}
                          \/ Len(base_df) = 0
                          \/ (n_fail < 4 /\ ~allow_under_four
                                /\ Cardinality(Range(base_df)) < 4)
                          \/ n_fail = 0
       IN  IF refused
           THEN /\ History("_repeat_failures_from_results", FALSE, 0)
                /\ UNCHANGED <<kanji_stats, profile_data, profile_file, stats_file,
                               drillFilters, meaning_mode, reading_type, df_f,
                               currentSample, currentQuestionIndex, totalQuestions,
                               currentRow, answer_buttons, meaning_input, question_widget,
                               page, timers, pw_current_session_id, pw_cooldown_sessions,
                               session_results, sessionState, answered, sessionOrdinal,
                               nAnswers, nRestarts, nChanges, nBacks>>
           ELSE /\ sessionOrdinal < MaxSessions
                /\ currentSample' = df_failures
                /\ totalQuestions' = n_fail
                /\ currentQuestionIndex' = 0
                /\ session_results' = <<>>
                /\ \E alive \in BOOLEAN :
                   LET q == showQuestion(0, n_fail, df_failures, kanji_stats,
                                         drillFilters, meaning_mode, alive)
                   IN  /\ kanji_stats' = q.stats
                       /\ currentRow' = q.row
                       /\ answer_buttons' = q.buttons
                       /\ meaning_input' = q.input
                       /\ question_widget' = q.widget
                /\ page' = 2
                /\ sessionState' = "InProgress"
                /\ answered' = {}
                /\ sessionOrdinal' = sessionOrdinal + 1
                /\ History("_repeat_failures_from_results", TRUE, 0)
                /\ UNCHANGED <<profile_data, profile_file, stats_file, drillFilters,
                               meaning_mode, reading_type, df_f, timers,
                               pw_current_session_id, pw_cooldown_sessions, nAnswers,
                               nRestarts, nChanges, nBacks>>

\* The program is closed and started again: __init__ reads the two documents, which
\* are as last written, or have been removed or damaged in the meantime
Restart ==
    /\ nRestarts < MaxRestarts
    /\ \E sfile \in {stats_file, Missing, Unreadable},
          pfile \in {profile_file, Missing, Unreadable} :
          /\ kanji_stats' = load_or_create_stats(sfile)
          /\ stats_file' = Saved(kanji_stats')
          /\ profile_data' = load_or_create_profile(pfile)
          /\ profile_file' = Saved(profile_data')
          /\ History("Restart", pfile.status = "ok", 0)
    /\ df_f' = build_filtered_df(DefaultFilters)
    /\ drillFilters' = [DefaultFilters EXCEPT !.max_count = Len(df_f')]
    /\ meaning_mode' = "multiple_choice"
    /\ reading_type' = "kunyomi"
    /\ currentSample' \in getRandomSample(df_f', DefaultFilters.count, RandomDraw)
    /\ currentQuestionIndex' = 0
    /\ totalQuestions' = 0
    /\ currentRow' = "None"
    /\ answer_buttons' = "absent"
    /\ meaning_input' = "absent"
    /\ question_widget' = "none"
    /\ page' = 0
    /\ timers' = <<>>
    /\ pw_current_session_id' = 0
    /\ pw_cooldown_sessions' = 0
    /\ session_results' = <<>>
    /\ sessionState' = "Idle"
    /\ answered' = {}
    /\ nRestarts' = nRestarts + 1
    /\ UNCHANGED <<sessionOrdinal, nAnswers, nChanges, nBacks>>

Next ==
    \/ GoDrillMenu
    \/ Back
    \/ \E level \in JlptLevels : level_filter(level)
    \/ prioritizeweakness_changed
    \/ \E text \in {"Meaning", "Reading"} : filterdrill_changed(text)
    \/ \E text \in {"writing", "multiple_choice"} : meaningmode_changed(text)
    \/ DrillStart
    \/ checkAnswer
    \/ submit_meaning_written
    \/ _advance_after_popup
    \/ _repeat_failures_from_results
    \/ Restart

Spec == Init /\ [][Next]_vars

-----------------------------------------------------------------------------
(* Claims on the session machine (Spec)                                    *)

questionCounter == profile_data.pw_question_counter

sessionCounter == profile_data.pw_session_counter

\* C4: a session reaches Complete only when every item of its sample has been
\* answered, and a result-overlay callback armed by an earlier session never
\* advances a later one
C4_CompleteOnlyWhenAllAnswered ==
    /\ sessionState = "Complete" => \A i \in 0..(totalQuestions - 1) : i \in answered
    /\ lastOp.op = "_advance_after_popup" => lastOp.armedBy = sessionOrdinal

\* C5: from the moment a session is Complete until the next session starts, no
\* record of the store and neither counter changes, whatever UI event occurs
C5_NoMutationWhileComplete ==
    [][sessionState = "Complete" /\ sessionState' = "Complete"
          => kanji_stats' = kanji_stats /\ profile_data' = profile_data]_vars

\* C6: a DrillStart with fewer than 4 items in the filtered pool reports an error
\* and leaves the sample, the question index, the session id and
\* pw_session_counter as they were
C6_RefusesSmallPool ==
    [][lastOp'.op = "DrillStart" /\ Len(build_filtered_df(drillFilters)) < 4
          => /\ ~lastOp'.ok
             /\ currentSample' = currentSample
             /\ currentQuestionIndex' = currentQuestionIndex
             /\ totalQuestions' = totalQuestions
             /\ pw_current_session_id' = pw_current_session_id
             /\ sessionCounter' = sessionCounter
             /\ sessionState' = sessionState
             /\ page' = page]_vars

C6_Witness ==
    /\ lastOp.op = "DrillStart"
    /\ ~lastOp.ok
    /\ Len(df_f) = 3
    /\ drillFilters.prioritize_weakness
    /\ sessionCounter = 1

\* C7: a DrillStart that starts a session with prioritization enabled increases
\* pw_session_counter by exactly 1 and uses the new value as the session id; with
\* prioritization disabled the counter is unchanged and the session id is 0
C7_SessionCounterStep ==
    [][lastOp'.op = "DrillStart" /\ sessionOrdinal' = sessionOrdinal + 1
          => IF drillFilters.prioritize_weakness
             THEN /\ sessionCounter' = sessionCounter + 1
                  /\ pw_current_session_id' = sessionCounter'
             ELSE /\ sessionCounter' = sessionCounter
                  /\ pw_current_session_id' = 0]_vars

C7_Witness ==
    /\ lastOp.op = "DrillStart"
    /\ lastOp.ok
    /\ sessionOrdinal = 2
    /\ ~drillFilters.prioritize_weakness
    /\ pw_current_session_id = 0
    /\ sessionCounter = 1

\* C8: each answered question increases pw_question_counter by exactly 1 when
\* prioritization is enabled at the time of the answer and leaves it unchanged
\* when it is disabled; no other operation of the running program changes it
C8_QuestionCounterStep ==
    [][lastOp'.op # "Restart"
          => IF nAnswers' = nAnswers + 1
             THEN questionCounter' = questionCounter
                      + (IF drillFilters.prioritize_weakness THEN 1 ELSE 0)
             ELSE questionCounter' = questionCounter]_vars

C8_Witness ==
    /\ lastOp.op \in {"checkAnswer", "submit_meaning_written"}
    /\ nAnswers = 2
    /\ ~drillFilters.prioritize_weakness
    /\ questionCounter = 1

\* C9 as stated: neither counter ever decreases, over profile loads (the file
\* missing or unreadable included), session starts, repeat-failure sessions and
\* answers
C9_CountersNeverDecrease ==
    [][questionCounter' >= questionCounter /\ sessionCounter' >= sessionCounter]_vars

\* C9 amended: neither counter decreases over session starts, repeat-failure
\* sessions and answers; a profile load whose file is readable sets both to the
\* values the file holds, and a load whose file is missing or unreadable sets
\* both to 0
C9_CountersAcrossLoads ==
    [][IF nRestarts' = nRestarts + 1
       THEN IF lastOp'.ok
            THEN /\ questionCounter' = profile_file.doc.pw_question_counter
                 /\ sessionCounter' = profile_file.doc.pw_session_counter
            ELSE questionCounter' = 0 /\ sessionCounter' = 0
       ELSE questionCounter' >= questionCounter /\ sessionCounter' >= sessionCounter]_vars

\* A load of a lost profile after answers were counted: the store still holds the
\* question counter's earlier value
C9_Witness ==
    /\ lastOp.op = "Restart"
    /\ ~lastOp.ok
    /\ questionCounter = 0
    /\ sessionCounter = 0
    /\ \E k \in DOMAIN kanji_stats :
          kanji_stats[k]["JLPT"]["Meaning:multiple_choice"]["pw_last_seen"] > 0

C26_AnswerOnlyOnTrainPage ==
    [][nAnswers' = nAnswers + 1 => sessionState = "InProgress" /\ page = 2]_vars

\* C30: a session started with N sampled items, in which every presented question
\* is answered and every overlay timer fires, reaches Complete after exactly N
\* recorded answers, and its question index never exceeds N.  Stated on the
\* sessions all of whose N questions have a recorded answer.
C30_CompleteAfterNAnswers ==
    sessionState \in {"InProgress", "Complete"}
        /\ (\A i \in 0..(totalQuestions - 1) : i \in answered)
    => /\ currentQuestionIndex <= totalQuestions
       /\ sessionState = "Complete" => Len(session_results) = totalQuestions

-----------------------------------------------------------------------------
(* SpecPwOff: the session machine, entered on the drill menu with the      *)
(* "prioritize weakness" box unticked                                      *)

\* The state Spec is in after Init, GoDrillMenu and prioritizeweakness_changed
\* (the box unticked); the budgets of the run start here
InitPwOff ==
    /\ kanji_stats = load_or_create_stats(Missing)
    /\ stats_file = Saved(kanji_stats)
    /\ profile_data = load_or_create_profile(Missing)
    /\ profile_file = Saved(profile_data)
    /\ df_f = build_filtered_df(DefaultFilters)
    /\ drillFilters = [DefaultFilters EXCEPT !.max_count = Len(df_f),
                                             !.prioritize_weakness = FALSE]
    /\ meaning_mode = "multiple_choice"
    /\ reading_type = "kunyomi"
    /\ currentSample \in getRandomSample(df_f, DefaultFilters.count, RandomDraw)
    /\ currentQuestionIndex = 0
    /\ totalQuestions = 0
    /\ currentRow = "None"
    /\ answer_buttons = "absent"
    /\ meaning_input = "absent"
    /\ question_widget = "none"
    /\ page = 1
    /\ timers = <<>>
    /\ pw_current_session_id = 0
    /\ pw_cooldown_sessions = 0
    /\ session_results = <<>>
    /\ sessionState = "Idle"
    /\ answered = {}
    /\ sessionOrdinal = 0
    /\ nAnswers = 0
    /\ nRestarts = 0
    /\ nChanges = 0
    /\ nBacks = 0
    /\ lastOp = Op("prioritizeweakness_changed", TRUE, 0)

SpecPwOff == InitPwOff /\ [][Next]_vars

\* The bucket the answer just recorded was counted in
stampedBucket ==
    kanji_stats[currentRow][drillFilters.system]
               [_current_mode_key(drillFilters.drill, meaning_mode, reading_type)]

\* C11: after any answer recorded while prioritization is enabled, the answered
\* bucket's pw_last_seen_session equals the id of the session the answer was
\* given in and is >= 1, however the session was started and whatever the
\* prioritization setting was when it started
C11_StampIsSessionId ==
    lastOp.op \in {"checkAnswer", "submit_meaning_written"}
        /\ drillFilters.prioritize_weakness
    => /\ stampedBucket["pw_last_seen_session"] = pw_current_session_id
       /\ stampedBucket["pw_last_seen_session"] >= 1

-----------------------------------------------------------------------------
(* What the pure-function specifications leave at rest                     *)

AtRest ==
    /\ profile_file = Missing
    /\ stats_file = Missing
    /\ meaning_mode = "multiple_choice"
    /\ reading_type = "kunyomi"
    /\ currentQuestionIndex = 0
    /\ totalQuestions = 0
    /\ currentRow = "None"
    /\ answer_buttons = "absent"
    /\ meaning_input = "absent"
    /\ question_widget = "none"
    /\ page = 0
    /\ timers = <<>>
    /\ pw_current_session_id = 0
    /\ pw_cooldown_sessions = 0
    /\ session_results = <<>>
    /\ sessionState = "Idle"
    /\ answered = {}
    /\ sessionOrdinal = 0
    /\ nAnswers = 0
    /\ nRestarts = 0
    /\ nChanges = 0
    /\ nBacks = 0
    /\ lastOp = NoOp

StayAtRest ==
    UNCHANGED <<profile_file, stats_file, meaning_mode, reading_type,
                currentQuestionIndex, totalQuestions, currentRow, answer_buttons,
                meaning_input, question_widget, page, timers, pw_current_session_id,
                pw_cooldown_sessions, session_results, sessionState, answered,
                sessionOrdinal, nRestarts, nChanges, nBacks>>

-----------------------------------------------------------------------------
(* SpecMastery: update_stats_and_profile applied to loaded stores          *)

MaxUpdates == 2     \* answers applied in one run of SpecMastery

\* Mastery values of the loaded bucket, in cents
MasteryGrid == {0, 1199, 5000, 8000, 9899, 9950, 10000}

\* The entry of a stats document whose JLPT buckets hold the given mastery state
loaded_entry(m, streak, total_enc, last) ==
    [total_encounters |-> total_enc,
     JLPT |-> [md \in Modes |-> [bucket_defaults EXCEPT !["mastery"] = m,
                                                       !["mastery_streak"] = streak,
                                                       !["mastery_last_seen"] = last]],
     WaniKani |-> [md \in Modes |-> bucket_defaults]]

LoadedStores ==
    {EmptyStore} \cup
    { ("k1" :> loaded_entry(m, streak, total_enc, last)) :
        m \in MasteryGrid, streak \in {5, 6}, total_enc \in {23, 24}, last \in {0, 100} }

InitMastery ==
    /\ AtRest
    /\ kanji_stats \in LoadedStores
    /\ \E qc \in {0, 100} :
          profile_data = [pw_question_counter |-> qc, pw_session_counter |-> 0]
    /\ \E drill \in {"Meaning", "Reading"} :
          drillFilters = [DefaultFilters EXCEPT !.drill = drill]
    /\ df_f = <<>>
    /\ currentSample = <<>>

\* One answer to k1, after the question counter has advanced by gap through
\* answers to other items
AnswerUpdate(gap, pw, is_correct, tieUp) ==
    /\ nAnswers < MaxUpdates
    /\ LET filters == [drillFilters EXCEPT !.prioritize_weakness = pw]
           prof    == [profile_data EXCEPT !.pw_question_counter = @ + gap]
           mk      == _current_mode_key(filters.drill, meaning_mode, reading_type)
           before  == ensure_kanji_entry(kanji_stats, "k1")["k1"]
           u       == update_stats_and_profile(kanji_stats, prof, filters, meaning_mode,
                                               reading_type, pw_current_session_id,
                                               "k1", is_correct, tieUp)
       IN  /\ kanji_stats' = u.stats
           /\ profile_data' = u.prof
           /\ drillFilters' = filters
           /\ lastOp' = [op |-> "answer", correct |-> is_correct, pw |-> pw,
                         mode |-> mk, now |-> prof.pw_question_counter + 1,
                         before |-> before["JLPT"][mk]]
    /\ nAnswers' = nAnswers + 1
    /\ UNCHANGED <<df_f, currentSample>>
    /\ StayAtRest

NextMastery ==
    \E gap \in {0, 19, 199}, pw \in BOOLEAN, is_correct \in BOOLEAN, tieUp \in BOOLEAN :
        AnswerUpdate(gap, pw, is_correct, tieUp)

SpecMastery == InitMastery /\ [][NextMastery]_vars

\* The bucket the last answer of SpecMastery updated
answeredBucket == kanji_stats["k1"]["JLPT"][lastOp.mode]

\* The age the last answer's mastery update worked with
answeredAge ==
    IF lastOp.before["mastery_last_seen"] > 0
    THEN Max(0, lastOp.now - lastOp.before["mastery_last_seen"])
    ELSE 0

\* C1: after any sequence of answers every bucket's mastery is within [0, 100]
C1_MasteryInRange ==
    \A k \in DOMAIN kanji_stats : \A sysn \in Systems : \A md \in Modes :
        /\ kanji_stats[k][sysn][md]["mastery"] >= 0
        /\ kanji_stats[k][sysn][md]["mastery"] <= 10000

\* A wrong answer whose penalty exceeds the mastery held: the floor applies
C1_Witness ==
    /\ lastOp.op = "answer"
    /\ lastOp.pw
    /\ ~lastOp.correct
    /\ lastOp.before["mastery"] = 1199
    /\ answeredBucket["mastery"] = 0

\* C2: an answer update sets mastery to exactly 100 only if mastery_streak (after
\* the increment) is >= 7 and total_encounters is >= 25; a correct answer that
\* would bring mastery to 99 or more without both leaves it at 99
C2_CertificationGate ==
    lastOp.op = "answer" /\ lastOp.pw =>
        LET b     == answeredBucket
            gate  == b["mastery_streak"] >= 7 /\ kanji_stats["k1"]["total_encounters"] >= 25
        IN  /\ b["mastery"] = 10000 => gate
            /\ lastOp.correct /\ ~gate =>
                  /\ b["mastery"] <= 9900
                  /\ answeredAge < MIN_AGE_FOR_DECAY =>
                        b["mastery"] >= Min(lastOp.before["mastery"], 9900)

\* The streak is long enough but the item has been met 24 times: 99.5 becomes 99
C2_Witness ==
    /\ lastOp.op = "answer"
    /\ lastOp.pw
    /\ lastOp.correct
    /\ lastOp.before["mastery"] = 9950
    /\ answeredBucket["mastery_streak"] = 7
    /\ kanji_stats["k1"]["total_encounters"] = 24
    /\ answeredBucket["mastery"] = 9900

\* The two values round(x, 2) can give for x units
rounded(x) == {round2(x, TRUE), round2(x, FALSE)}

\* The mastery the last answer's update started from, after its decay, in units
answeredDecayed == decayed(lastOp.before["mastery"] * 800, answeredAge)

\* C18: on a correct answer the decayed mastery m becomes m + base * (1 - m/100) * h
\* before the 99/100 gate and rounding, base 3.5 for Reading and 2.5 otherwise,
\* h = 0.5 under prioritization and 1 otherwise, and mastery_streak grows by 1
C18_GainOnCorrect ==
    lastOp.op = "answer" /\ lastOp.correct =>
        LET m    == answeredDecayed
            base == IF drillFilters.drill = "Reading" THEN 14 ELSE 10
            gain == IF lastOp.pw THEN ((8000000 - m) * base) \div 800
                    ELSE ((8000000 - m) * base) \div 400
        IN  /\ answeredBucket["mastery_streak"] = lastOp.before["mastery_streak"] + 1
            /\ m + gain < 99 * 80000 => answeredBucket["mastery"] \in rounded(m + gain)

C21_MasteryOnEveryAnswer ==
    lastOp.op = "answer" =>
        LET last   == lastOp.before["mastery_last_seen"]
            age    == IF last > 0 THEN Max(0, questionCounter - last) ELSE 0
            m      == decayed(lastOp.before["mastery"] * 800, age)
            streak == IF lastOp.correct THEN lastOp.before["mastery_streak"] + 1 ELSE 0
            after  == IF lastOp.correct
                      THEN after_correct(m, drillFilters.drill, lastOp.pw, streak,
                                         kanji_stats["k1"]["total_encounters"])
                      ELSE after_wrong(m)
        IN  /\ answeredBucket["mastery_streak"] = streak
            /\ answeredBucket["mastery"] \in rounded(after)
            /\ answeredBucket["mastery_last_seen"] = questionCounter

-----------------------------------------------------------------------------
(* SpecEnsure: ensure_kanji_entry applied to partial stores                *)

\* Buckets a stats document can hold: complete, lacking fields, empty
PartialBuckets ==
    { [bucket_defaults EXCEPT !["right"] = 3, !["mastery"] = 5000, !["pw_last_seen"] = 9],
      [right |-> 2, mastery |-> 4200],
      EmptyDict }

PartialSystems ==
    {EmptyDict} \cup
    { ("Meaning:writing" :> b) : b \in PartialBuckets } \cup
    { [md \in Modes |-> b] : b \in PartialBuckets }

PartialEntries ==
    {EmptyDict} \cup
    { [total_encounters |-> 7, JLPT |-> s] : s \in PartialSystems } \cup
    { [JLPT |-> s, WaniKani |-> EmptyDict] : s \in PartialSystems } \cup
    { [JLPT |-> s, WaniKani |-> s] : s \in PartialSystems }

PartialStores ==
    {EmptyStore} \cup
    { ("k1" :> e) : e \in PartialEntries } \cup
    { ("k1" :> e) @@ ("k2" :> [total_encounters |-> 1, JLPT |-> EmptyDict]) :
        e \in PartialEntries }

InitEnsure ==
    /\ AtRest
    /\ kanji_stats \in PartialStores
    /\ profile_data = [pw_question_counter |-> 0, pw_session_counter |-> 0]
    /\ drillFilters = DefaultFilters
    /\ df_f = <<>>
    /\ currentSample = <<>>

EnsureCall(k) ==
    /\ kanji_stats' = ensure_kanji_entry(kanji_stats, k)
    /\ lastOp' = [op |-> "ensure", key |-> k, before |-> kanji_stats]
    /\ UNCHANGED <<profile_data, drillFilters, df_f, currentSample, nAnswers>>
    /\ StayAtRest

NextEnsure == \E k \in {"k1", "k2", "k3"} : EnsureCall(k)

SpecEnsure == InitEnsure /\ [][NextEnsure]_vars

\* C10: after ensure_kanji_entry the item has total_encounters and all 4 mode
\* buckets under both systems with all 11 fields, every field that existed keeps
\* its value, the records of other items are unchanged, and a second call
\* changes nothing
C10_EnsureIdempotent ==
    lastOp.op = "ensure" =>
        LET k      == lastOp.key
            before == lastOp.before
            entry  == kanji_stats[k]
        IN  /\ DOMAIN kanji_stats = (DOMAIN before) \cup {k}
            /\ "total_encounters" \in DOMAIN entry
            /\ \A sysn \in Systems :
                  /\ sysn \in DOMAIN entry
                  /\ \A md \in Modes :
                        /\ md \in DOMAIN entry[sysn]
                        /\ Fields \subseteq DOMAIN entry[sysn][md]
            /\ k \in DOMAIN before =>
                  /\ DOMAIN before[k] \subseteq DOMAIN entry
                  /\ "total_encounters" \in DOMAIN before[k] =>
                        entry["total_encounters"] = before[k]["total_encounters"]
                  /\ \A sysn \in Systems \cap DOMAIN before[k] :
                        \A md \in DOMAIN before[k][sysn] :
                           /\ md \in DOMAIN entry[sysn]
                           /\ \A f \in DOMAIN before[k][sysn][md] :
                                 /\ f \in DOMAIN entry[sysn][md]
                                 /\ entry[sysn][md][f] = before[k][sysn][md][f]
            /\ \A j \in (DOMAIN before) \ {k} : kanji_stats[j] = before[j]
            /\ ensure_kanji_entry(kanji_stats, k) = kanji_stats

\* The call met a bucket that held two fields and lacked the other nine
C10_Witness ==
    /\ lastOp.op = "ensure"
    /\ lastOp.key = "k1"
    /\ "k1" \in DOMAIN lastOp.before
    /\ "JLPT" \in DOMAIN lastOp.before["k1"]
    /\ "Meaning:writing" \in DOMAIN lastOp.before["k1"]["JLPT"]
    /\ DOMAIN lastOp.before["k1"]["JLPT"]["Meaning:writing"] = {"right", "mastery"}
    /\ kanji_stats["k1"]["JLPT"]["Meaning:writing"]["mastery"] = 4200
    /\ kanji_stats["k1"]["JLPT"]["Meaning:writing"]["streak"] = 0

-----------------------------------------------------------------------------
(* SpecSample: the two samplers, every outcome of the random source        *)

MaxPool == 4        \* rows of the pool sampled from

PoolRows == <<"k1", "k2", "k3", "k4", "k5", "k6">>

\* Stores whose buckets give the rows equal, and unequal, weights
SampleStores ==
    { EmptyStore,
      ("k1" :> loaded_entry(0, 0, 4, 0)) @@
      ("k2" :> [loaded_entry(0, 0, 4, 0) EXCEPT
                   !["JLPT"]["Meaning:multiple_choice"]["pw_wrong"] = 3,
                   !["JLPT"]["Meaning:multiple_choice"]["pw_last_seen"] = 2]) }

InitSample ==
    /\ AtRest
    /\ kanji_stats \in SampleStores
    /\ profile_data = [pw_question_counter |-> 4, pw_session_counter |-> 1]
    /\ \E len \in 1..MaxPool : \E n \in 1..len : \E pw \in BOOLEAN :
          /\ df_f = SubSeq(PoolRows, 1, len)
          /\ drillFilters = [DefaultFilters EXCEPT !.count = n, !.max_count = len,
                                                   !.prioritize_weakness = pw]
    /\ currentSample = <<>>

\* self.currentSample = get_pw_weighted_sample(df_f, n), or getRandomSample(df_f, n)
DrawSample ==
    /\ LET pw      == drillFilters.prioritize_weakness
           n       == drillFilters.count
           stats1  == IF pw THEN ensure_rows(kanji_stats, df_f, Len(df_f)) ELSE kanji_stats
           choices == IF pw
                      THEN chosen_positions(Len(df_f),
                               row_weights(df_f, stats1, drillFilters, meaning_mode,
                                           reading_type, profile_data,
                                           pw_cooldown_sessions),
                               n, "any")
                      ELSE sample_positions(Len(df_f), Min(n, Len(df_f)), "any")
       IN  /\ kanji_stats' = stats1
           /\ \E pos \in choices :
                 /\ currentSample' = iloc(df_f, pos)
                 /\ lastOp' = [op |-> "sample", positions |-> pos]
    /\ UNCHANGED <<profile_data, drillFilters, df_f, nAnswers>>
    /\ StayAtRest

NextSample == DrawSample

SpecSample == InitSample /\ [][NextSample]_vars

\* C3: for 1 <= n <= |pool| the sample holds exactly n items, at distinct pool
\* positions and all taken from the pool, for every outcome of the random draws
C3_SampleWellFormed ==
    lastOp.op = "sample" =>
        LET pos == lastOp.positions
        IN  /\ Len(currentSample) = drillFilters.count
            /\ Len(pos) = drillFilters.count
            /\ \A a \in DOMAIN pos :
                  /\ pos[a] \in 1..Len(df_f)
                  /\ currentSample[a] = df_f[pos[a]]
                  /\ \A b \in DOMAIN pos : a # b => pos[a] # pos[b]

\* The weighted sampler drew 3 of 4 rows, the last row first
C3_Witness ==
    /\ lastOp.op = "sample"
    /\ drillFilters.prioritize_weakness
    /\ Len(df_f) = 4
    /\ lastOp.positions = <<4, 2, 1>>
    /\ currentSample = <<"k4", "k2", "k1">>

-----------------------------------------------------------------------------
(* SpecWeight: _pw_weight_for_row applied to the rows of a pool            *)

\* Values of the four fields of a bucket the weight reads
WeightRights == {0, 2}

WeightWrongs == {0, 1, 3}

WeightLastSeen == {0, 50, 300, 350, 620}

WeightLastSessions == {0, 1, 2, 3}

\* The two counters of the profile: a fresh (or lost) profile, and two in use
WeightProfiles ==
    { [pw_question_counter |-> 0, pw_session_counter |-> 0],
      [pw_question_counter |-> 200, pw_session_counter |-> 3],
      [pw_question_counter |-> 500, pw_session_counter |-> 3] }

\* The cooldown tiers DrillStart sets
CooldownTiers == 0..3

weight_bucket(r, w, last, last_sess) ==
    [bucket_defaults EXCEPT !["pw_right"] = r, !["pw_wrong"] = w,
                            !["pw_last_seen"] = last,
                            !["pw_last_seen_session"] = last_sess]

WeightBuckets ==
    { weight_bucket(r, w, last, last_sess) :
        r \in WeightRights, w \in WeightWrongs, last \in WeightLastSeen,
        last_sess \in WeightLastSessions }

\* The field of the weight in which two buckets differ, if it is the only one
differ_only_in(b1, b2, f) ==
    /\ b1[f] # b2[f]
    /\ \A g \in Fields \ {f} : b1[g] = b2[g]

weight_entry(b) ==
    [total_encounters |-> b["pw_right"] + b["pw_wrong"],
     JLPT |-> [md \in Modes |-> IF md = "Meaning:multiple_choice" THEN b
                                ELSE bucket_defaults],
     WaniKani |-> [md \in Modes |-> bucket_defaults]]

\* Stores with a record for k1 and k2, equal or differing in one field, and none
\* for k3
near_buckets(b1) ==
    { b \in WeightBuckets : b = b1 \/ \E f \in Fields : differ_only_in(b1, b, f) }

WeightStores ==
    UNION { { ("k1" :> weight_entry(b1)) @@ ("k2" :> weight_entry(b2)) :
                b2 \in near_buckets(b1) } :
            b1 \in WeightBuckets }

NoWeights == [x \in {} |-> 0]

InitWeight ==
    /\ kanji_stats \in WeightStores
    /\ profile_data \in WeightProfiles
    /\ pw_cooldown_sessions \in CooldownTiers
    /\ pw_current_session_id = profile_data.pw_session_counter
    /\ drillFilters = [DefaultFilters EXCEPT !.max_count = 3]
    /\ df_f = <<"k1", "k2", "k3">>
    /\ currentSample = <<>>
    /\ profile_file = Missing
    /\ stats_file = Missing
    /\ meaning_mode = "multiple_choice"
    /\ reading_type = "kunyomi"
    /\ currentQuestionIndex = 0
    /\ totalQuestions = 0
    /\ currentRow = "None"
    /\ answer_buttons = "absent"
    /\ meaning_input = "absent"
    /\ question_widget = "none"
    /\ page = 1
    /\ timers = <<>>
    /\ session_results = <<>>
    /\ sessionState = "Idle"
    /\ answered = {}
    /\ sessionOrdinal = 0
    /\ nAnswers = 0
    /\ nRestarts = 0
    /\ nChanges = 0
    /\ nBacks = 0
    /\ lastOp = [op |-> "init", seen |-> NoWeights]

\* One call self._pw_weight_for_row(row), row being the row of item k
WeightCall(k) ==
    /\ LET stats1 == ensure_kanji_entry(kanji_stats, k)
           bucket == stats1[k][drillFilters.system]
                           [_current_mode_key(drillFilters.drill, meaning_mode,
                                              reading_type)]
           now      == profile_data.pw_question_counter
           now_sess == profile_data.pw_session_counter
           result == [bucket |-> bucket,
                      age    |-> pw_age(bucket, now),
                      sess_age |-> pw_sess_age(bucket, now_sess),
                      factor |-> session_cooldown_factor(pw_sess_age(bucket, now_sess),
                                                         pw_cooldown_sessions),
                      weight |-> _pw_weight_for_row(bucket, now, now_sess,
                                                    pw_cooldown_sessions)]
       IN  /\ kanji_stats' = stats1
           /\ lastOp' = [op |-> "weight", key |-> k,
                         seen |-> [x \in (DOMAIN lastOp.seen) \cup {k} |->
                                      IF x = k THEN result ELSE lastOp.seen[x]]]
    /\ UNCHANGED <<profile_data, profile_file, stats_file, drillFilters, meaning_mode,
                   reading_type, df_f, currentSample, currentQuestionIndex,
                   totalQuestions, currentRow, answer_buttons, meaning_input,
                   question_widget, page, timers, pw_current_session_id,
                   pw_cooldown_sessions, session_results, sessionState, answered,
                   sessionOrdinal, nAnswers, nRestarts, nChanges, nBacks>>

NextWeight == \E i \in DOMAIN df_f : WeightCall(df_f[i])

SpecWeight == InitWeight /\ [][NextWeight]_vars

\* The result of the last call, and a < b, a <= b, a = b on fractions
lastWeight == lastOp.seen[lastOp.key]

FracLess(a, b) == a[1] * b[2] < b[1] * a[2]

FracLeq(a, b) == a[1] * b[2] <= b[1] * a[2]

FracEq(a, b) == a[1] * b[2] = b[1] * a[2]

\* C12: a bucket never seen under prioritization (pw_last_seen = 0, pw_right =
\* pw_wrong = 0) has, at cooldown tier 0, the weight 0.58 whatever the value of
\* pw_question_counter
C12_NeverSeenWeight ==
    lastOp.op = "weight"
        /\ lastWeight.bucket["pw_last_seen"] = 0
        /\ lastWeight.bucket["pw_right"] = 0
        /\ lastWeight.bucket["pw_wrong"] = 0
        /\ pw_cooldown_sessions = 0
    => FracEq(lastWeight.weight, <<58, 100>>)

\* C13: of two buckets that differ in pw_wrong only, the one with the larger
\* pw_wrong has the strictly larger weight; of two that differ in pw_last_seen
\* only, the one with the larger age has the strictly larger weight while the
\* ages are at most 200, and the same weight when both are 200 or more
C13_WeightMonotone ==
    lastOp.op = "weight" =>
        \A i, j \in DOMAIN lastOp.seen :
            LET a == lastOp.seen[i]
                b == lastOp.seen[j]
            IN  /\ differ_only_in(a.bucket, b.bucket, "pw_wrong")
                      /\ a.bucket["pw_wrong"] < b.bucket["pw_wrong"]
                   => FracLess(a.weight, b.weight)
                /\ differ_only_in(a.bucket, b.bucket, "pw_last_seen")
                      /\ a.age < b.age /\ b.age <= 200
                   => FracLess(a.weight, b.weight)
                /\ differ_only_in(a.bucket, b.bucket, "pw_last_seen")
                      /\ a.age >= 200 /\ b.age >= 200
                   => FracEq(a.weight, b.weight)

\* Both comparisons have been made: k3 (never answered, pw_wrong 0) against k2
\* (pw_wrong 1), and k1 (age 150) against k2 (age 200)
C13_Witness ==
    /\ lastOp.op = "weight"
    /\ DOMAIN lastOp.seen = {"k1", "k2", "k3"}
    /\ differ_only_in(lastOp.seen["k3"].bucket, lastOp.seen["k2"].bucket, "pw_wrong")
    /\ lastOp.seen["k3"].bucket["pw_wrong"] = 0
    /\ lastOp.seen["k2"].bucket["pw_wrong"] = 1
    /\ FracLess(lastOp.seen["k3"].weight, lastOp.seen["k2"].weight)
    /\ differ_only_in(lastOp.seen["k1"].bucket, lastOp.seen["k2"].bucket, "pw_last_seen")
    /\ lastOp.seen["k1"].age = 150
    /\ lastOp.seen["k2"].age = 200
    /\ FracLess(lastOp.seen["k1"].weight, lastOp.seen["k2"].weight)

\* C14: the cooldown factor is 0.20 when the tier is positive and sessAge = 0,
\* is 1.0 whenever sessAge >= the tier or the tier is 0, and does not decrease as
\* sessAge grows
C14_CooldownFactor ==
    lastOp.op = "weight" =>
        /\ \A i \in DOMAIN lastOp.seen :
              LET a == lastOp.seen[i]
              IN  /\ pw_cooldown_sessions > 0 /\ a.sess_age = 0
                     => FracEq(a.factor, <<1, 5>>)
                  /\ a.sess_age >= pw_cooldown_sessions \/ pw_cooldown_sessions = 0
                     => FracEq(a.factor, <<1, 1>>)
        /\ \A i, j \in DOMAIN lastOp.seen :
              lastOp.seen[i].sess_age <= lastOp.seen[j].sess_age
              => FracLeq(lastOp.seen[i].factor, lastOp.seen[j].factor)

\* Tier 3: an item of this session (sessAge 0) at 0.20 and one of the session
\* before (sessAge 1) on the ramp, at 0.20 + 0.80 / 3
C14_Witness ==
    /\ lastOp.op = "weight"
    /\ pw_cooldown_sessions = 3
    /\ {"k1", "k2"} \subseteq DOMAIN lastOp.seen
    /\ lastOp.seen["k1"].sess_age = 0
    /\ FracEq(lastOp.seen["k1"].factor, <<1, 5>>)
    /\ lastOp.seen["k2"].sess_age = 1
    /\ FracEq(lastOp.seen["k2"].factor, <<7, 15>>)

\* C15: the weight of every item is strictly positive, for every bucket with
\* non-negative counters, every counter value and every cooldown tier 0..3
C15_WeightPositive ==
    lastOp.op = "weight" =>
        \A i \in DOMAIN lastOp.seen :
            /\ lastOp.seen[i].weight[1] > 0
            /\ lastOp.seen[i].weight[2] > 0

\* The smallest weight of the grid: two right answers, none wrong, age 0, answered
\* in this session at tier 3: (0.08 + 0.25) * 0.20 = 0.066
C15_Witness ==
    /\ lastOp.op = "weight"
    /\ pw_cooldown_sessions = 3
    /\ lastWeight.bucket["pw_right"] = 2
    /\ lastWeight.bucket["pw_wrong"] = 0
    /\ lastWeight.age = 0
    /\ lastWeight.sess_age = 0
    /\ FracEq(lastWeight.weight, <<66, 1000>>)

\* C16: computing an item's weight mutates nothing: the stats store (which item
\* keys have a record included), the two counters and the session state are the
\* same before and after
C16_WeightIsPure ==
    [][lastOp'.op = "weight"
          => /\ kanji_stats' = kanji_stats
             /\ DOMAIN kanji_stats' = DOMAIN kanji_stats
             /\ profile_data' = profile_data
             /\ sessionState' = sessionState
             /\ pw_current_session_id' = pw_current_session_id
             /\ pw_cooldown_sessions' = pw_cooldown_sessions]_vars

-----------------------------------------------------------------------------
(* SpecTier: DrillStart over pools of every size                           *)

MaxTierPool == 34   \* rows of the largest pool a session is started on

\* Counts the spin box of the drill menu can hold: its range is 4..max(4, pool size)
TierCounts == {4, 5, 9, 12}

\* A catalog's filtered pool of n rows
tier_pool(n) == [i \in 1..n |-> ToString(i)]

InitTier ==
    /\ \E n \in 0..MaxTierPool : df_f = tier_pool(n)
    /\ \E count \in TierCounts, pw \in BOOLEAN :
          /\ count <= Max(4, Len(df_f))
          /\ drillFilters = [DefaultFilters EXCEPT !.count = count, !.max_count = Len(df_f),
                                                   !.prioritize_weakness = pw]
    /\ kanji_stats = EmptyStore
    /\ stats_file = Saved(kanji_stats)
    /\ profile_data = load_or_create_profile(Missing)
    /\ profile_file = Saved(profile_data)
    /\ meaning_mode = "multiple_choice"
    /\ reading_type = "kunyomi"
    /\ currentSample = <<>>
    /\ currentQuestionIndex = 0
    /\ totalQuestions = 0
    /\ currentRow = "None"
    /\ answer_buttons = "absent"
    /\ meaning_input = "absent"
    /\ question_widget = "none"
    /\ page = 1
    /\ timers = <<>>
    /\ pw_current_session_id = 0
    /\ pw_cooldown_sessions = 0
    /\ session_results = <<>>
    /\ sessionState = "Idle"
    /\ answered = {}
    /\ sessionOrdinal = 0
    /\ nAnswers = 0
    /\ nRestarts = 0
    /\ nChanges = 0
    /\ nBacks = 0
    /\ lastOp = NoOp

\* The Drill button pressed once, the catalog's filtered pool being df_f
NextTier == sessionOrdinal = 0 /\ lastOp = NoOp /\ DrillStartOn(df_f)

SpecTier == InitTier /\ [][NextTier]_vars

\* C17: a DrillStart that starts a session sets the cooldown tier from coverage =
\* requested count / pool size: 0 if coverage >= 0.40, 1 if >= 0.25, 2 if >= 0.12,
\* else 3
C17_TierFromCoverage ==
    [][lastOp'.op = "DrillStart" /\ lastOp'.ok
          => LET requested == drillFilters.count
                 available == Len(df_f')
             IN  pw_cooldown_sessions' =
                    IF requested * 100 >= 40 * available THEN 0
                    ELSE IF requested * 100 >= 25 * available THEN 1
                    ELSE IF requested * 100 >= 12 * available THEN 2
                    ELSE 3]_vars

\* 4 of a pool of 16 (coverage 0.25) gave tier 1
C17_Witness ==
    /\ lastOp.op = "DrillStart"
    /\ lastOp.ok
    /\ Len(df_f) = 16
    /\ totalQuestions = 4
    /\ Len(currentSample) = 4
    /\ pw_cooldown_sessions = 1
    /\ sessionState = "InProgress"

-----------------------------------------------------------------------------
(* SpecAnswers: sequences of answers from an empty stats store, given      *)
(* under every system, mode key and prioritization setting                 *)

MaxSeq == 3         \* answers in one run of SpecAnswers

AnswerItems == {"k1", "k2"}

\* drill, meaning mode and reading type that give the four mode keys
AnswerSettings ==
    { <<"Meaning", "multiple_choice", "kunyomi">>, <<"Meaning", "writing", "kunyomi">>,
      <<"Reading", "multiple_choice", "kunyomi">>, <<"Reading", "multiple_choice", "onyomi">> }

InitAnswers ==
    /\ AtRest
    /\ kanji_stats = EmptyStore
    /\ profile_data = load_or_create_profile(Missing)
    /\ drillFilters = DefaultFilters
    /\ df_f = <<>>
    /\ currentSample = <<>>

\* The controls of the drill menu are set, and update_stats_and_profile(k,
\* is_correct) records one answer under them
AnswerIn(k, sysn, setting, pw, is_correct, tieUp) ==
    /\ nAnswers < MaxSeq
    /\ LET filters == [drillFilters EXCEPT !.system = sysn, !.drill = setting[1],
                                           !.prioritize_weakness = pw]
           u       == update_stats_and_profile(kanji_stats, profile_data, filters,
                                               setting[2], setting[3],
                                               pw_current_session_id, k, is_correct,
                                               tieUp)
       IN  /\ drillFilters' = filters
           /\ meaning_mode' = setting[2]
           /\ reading_type' = setting[3]
           /\ kanji_stats' = u.stats
           /\ stats_file' = Saved(u.stats)
           /\ profile_data' = u.prof
           /\ profile_file' = Saved(u.prof)
           /\ lastOp' = [op |-> "answer", key |-> k, system |-> sysn,
                         mode |-> _current_mode_key(setting[1], setting[2], setting[3]),
                         pw |-> pw, correct |-> is_correct, before |-> kanji_stats]
    /\ nAnswers' = nAnswers + 1
    /\ UNCHANGED <<df_f, currentSample, currentQuestionIndex, totalQuestions, currentRow,
                   answer_buttons, meaning_input, question_widget, page, timers,
                   pw_current_session_id, pw_cooldown_sessions, session_results,
                   sessionState, answered, sessionOrdinal, nRestarts, nChanges, nBacks>>

NextAnswers ==
    \E k \in AnswerItems, sysn \in Systems, setting \in AnswerSettings, pw \in BOOLEAN,
       is_correct \in BOOLEAN, tieUp \in BOOLEAN :
        AnswerIn(k, sysn, setting, pw, is_correct, tieUp)

SpecAnswers == InitAnswers /\ [][NextAnswers]_vars

\* The record of the answered item as the last answer found it (a missing record
\* reads as the one ensure_kanji_entry creates), and the bucket it was counted in
entryBefore == ensure_kanji_entry(lastOp.before, lastOp.key)[lastOp.key]

bucketBefore == entryBefore[lastOp.system][lastOp.mode]

bucketAfter == kanji_stats[lastOp.key][lastOp.system][lastOp.mode]

\* C22: every answer updates the answered bucket's right / wrong / streak (right + 1
\* and streak + 1 on correct; wrong + 1 and streak = 0 on wrong) whatever the
\* prioritization setting, and an answer given with prioritization disabled
\* leaves pw_right, pw_wrong, pw_streak, pw_last_seen and pw_last_seen_session
C22_CountsOnEveryAnswer ==
    lastOp.op = "answer" =>
        /\ IF lastOp.correct
           THEN /\ bucketAfter["right"] = bucketBefore["right"] + 1
                /\ bucketAfter["streak"] = bucketBefore["streak"] + 1
                /\ bucketAfter["wrong"] = bucketBefore["wrong"]
           ELSE /\ bucketAfter["wrong"] = bucketBefore["wrong"] + 1
                /\ bucketAfter["streak"] = 0
                /\ bucketAfter["right"] = bucketBefore["right"]
        /\ ~lastOp.pw =>
              \A f \in {"pw_right", "pw_wrong", "pw_streak", "pw_last_seen",
                        "pw_last_seen_session"} :
                  bucketAfter[f] = bucketBefore[f]

\* Two right answers under prioritization, then a wrong one with it disabled: the
\* streak is reset, the pw fields stay
C22_Witness ==
    /\ lastOp.op = "answer"
    /\ ~lastOp.pw
    /\ ~lastOp.correct
    /\ bucketBefore["streak"] = 2
    /\ bucketBefore["pw_streak"] = 2
    /\ bucketAfter["right"] = 2
    /\ bucketAfter["wrong"] = 1
    /\ bucketAfter["streak"] = 0
    /\ bucketAfter["pw_right"] = 2
    /\ bucketAfter["pw_wrong"] = 0
    /\ bucketAfter["pw_streak"] = 2
    /\ bucketAfter["pw_last_seen"] = 2

\* C27: an answer update changes only the bucket of (answered item, current system,
\* current mode key) and that item's total_encounters: every other bucket of the
\* item and every record of every other item is unchanged
C27_OnlyAnsweredBucket ==
    lastOp.op = "answer" =>
        /\ DOMAIN kanji_stats = (DOMAIN lastOp.before) \cup {lastOp.key}
        /\ \A j \in (DOMAIN lastOp.before) \ {lastOp.key} : kanji_stats[j] = lastOp.before[j]
        /\ DOMAIN kanji_stats[lastOp.key] = DOMAIN entryBefore
        /\ \A sysn \in Systems : \A md \in Modes :
              <<sysn, md>> # <<lastOp.system, lastOp.mode>>
              => kanji_stats[lastOp.key][sysn][md] = entryBefore[sysn][md]

\* k1 answered under JLPT Reading:onyomi, having a bucket in use under another
\* mode key, and k2 having a record in use
C27_Witness ==
    /\ lastOp.op = "answer"
    /\ lastOp.key = "k1"
    /\ lastOp.system = "JLPT"
    /\ lastOp.mode = "Reading:onyomi"
    /\ lastOp.pw
    /\ "k1" \in DOMAIN lastOp.before
    /\ lastOp.before["k1"]["JLPT"]["Meaning:writing"]["pw_right"] = 1
    /\ kanji_stats["k1"]["JLPT"]["Meaning:writing"]["pw_right"] = 1
    /\ "k2" \in DOMAIN lastOp.before
    /\ kanji_stats["k2"]["WaniKani"]["Reading:onyomi"]["wrong"] = 1
    /\ kanji_stats["k1"]["total_encounters"] = 2

\* right + wrong over the buckets of an entry under the given (system, mode key) pairs
RECURSIVE sum_answers(_, _)
sum_answers(entry, pairs) ==
    IF pairs = {} THEN 0
    ELSE LET p == CHOOSE x \in pairs : TRUE
         IN  entry[p[1]][p[2]]["right"] + entry[p[1]][p[2]]["wrong"]
                 + sum_answers(entry, pairs \ {p})

\* C28: from an empty store, after any sequence of answers the total_encounters of
\* every item is the sum of right + wrong over all of its buckets (both systems,
\* all four mode keys), and in every bucket pw_right + pw_wrong <= right + wrong
C28_EncountersAreAnswers ==
    \A k \in DOMAIN kanji_stats :
        /\ kanji_stats[k]["total_encounters"] = sum_answers(kanji_stats[k], Systems \X Modes)
        /\ \A sysn \in Systems : \A md \in Modes :
              LET b == kanji_stats[k][sysn][md]
              IN  b["pw_right"] + b["pw_wrong"] <= b["right"] + b["wrong"]

\* Three answers to k1 under three (system, mode key) pairs, one of them with
\* prioritization disabled
C28_Witness ==
    /\ "k1" \in DOMAIN kanji_stats
    /\ kanji_stats["k1"]["total_encounters"] = 3
    /\ kanji_stats["k1"]["JLPT"]["Meaning:multiple_choice"]["right"] = 1
    /\ kanji_stats["k1"]["JLPT"]["Meaning:multiple_choice"]["pw_right"] = 0
    /\ kanji_stats["k1"]["WaniKani"]["Reading:kunyomi"]["wrong"] = 1
    /\ kanji_stats["k1"]["WaniKani"]["Reading:kunyomi"]["pw_wrong"] = 1
    /\ kanji_stats["k1"]["JLPT"]["Reading:onyomi"]["right"] = 1

-----------------------------------------------------------------------------
(* SpecAverage: compute_average_proficiency_for_current_filter over pools  *)
(* and stores; the report is kept in 1/1000 point                          *)

\* float(bucket.get("mastery", 0.0) or 0.0), in cents: 0.0 where the store holds no
\* record, system or bucket for the row
row_mastery(stats, k, sysn, mk) ==
    IF k \in DOMAIN stats
    THEN (IF sysn \in DOMAIN stats[k]
          THEN (IF mk \in DOMAIN stats[k][sysn]
                THEN (IF "mastery" \in DOMAIN stats[k][sysn][mk]
                      THEN stats[k][sysn][mk]["mastery"] ELSE 0)
                ELSE 0)
          ELSE 0)
    ELSE 0

\* Fault: a row without a record is passed over
counted_rows_recorded(df, stats) == {i \in DOMAIN df : df[i] # "" /\ df[i] \in DOMAIN stats}

\* The rows that enter total and count: every row whose kanji field is not empty
counted_rows(df, stats) == {i \in DOMAIN df : df[i] # ""}

RECURSIVE sum_mastery(_, _, _, _, _)
sum_mastery(df, rows, stats, sysn, mk) ==
    IF rows = {} THEN 0
    ELSE LET i == CHOOSE x \in rows : TRUE
         IN  row_mastery(stats, df[i], sysn, mk)
                 + sum_mastery(df, rows \ {i}, stats, sysn, mk)

\* round(num / den, 0); the float decides a value half-way between two integers
round_div(num, den, tieUp) ==
    LET q == num \div den
        r == num % den
    IN  IF 2 * r > den THEN q + 1
        ELSE IF 2 * r < den THEN q
        ELSE IF tieUp THEN q + 1 ELSE q

compute_average_proficiency_for_current_filter(df, stats, filters, mmode, rtype, tieUp) ==
    IF Len(df) = 0 THEN 0
    ELSE LET mk    == _current_mode_key(filters.drill, mmode, rtype)
             rows  == counted_rows(df, stats)
             total == sum_mastery(df, rows, stats, filters.system, mk)
             count == Cardinality(rows)
         IN  IF count > 0 THEN round_div(total * 10, count, tieUp) ELSE 0

\* Rows of a catalog; the last has an empty kanji field
AverageRows == <<"k1", "k2", "k3", "">>

pool_of(keys) ==
    LET keep(r) == r \in keys
    IN  SelectSeq(AverageRows, keep)

\* Stores with a record for k1, for k2, for both or for neither, and none for k3
AverageStores ==
    { [k \in keys |-> loaded_entry(IF k = "k1" THEN m1 ELSE m2, 0, 4, 0)] :
        keys \in SUBSET {"k1", "k2"}, m1 \in {0, 3334, 5000}, m2 \in {1001, 10000} }

InitAverage ==
    /\ AtRest
    /\ kanji_stats \in AverageStores
    /\ profile_data = load_or_create_profile(Missing)
    /\ \E sysn \in Systems : drillFilters = [DefaultFilters EXCEPT !.system = sysn]
    /\ \E keys \in SUBSET Range(AverageRows) : df_f = pool_of(keys)
    /\ currentSample = <<>>

\* update_count_label and DrillStart read the report
ReportAverage ==
    /\ \E tieUp \in BOOLEAN :
          lastOp' = [op |-> "average", before |-> kanji_stats,
                     value |-> compute_average_proficiency_for_current_filter(
                                   df_f, kanji_stats, drillFilters, meaning_mode,
                                   reading_type, tieUp)]
    /\ UNCHANGED <<kanji_stats, profile_data, drillFilters, df_f, currentSample, nAnswers>>
    /\ StayAtRest

NextAverage == ReportAverage

SpecAverage == InitAverage /\ [][NextAverage]_vars

\* The mean of the masteries at the given rows, in 1/1000 point, rounded either way
mean_over(rows) ==
    LET mk    == _current_mode_key(drillFilters.drill, meaning_mode, reading_type)
        total == sum_mastery(df_f, rows, kanji_stats, drillFilters.system, mk)
    IN  IF rows = {} THEN {0}
        ELSE {round_div(total * 10, Cardinality(rows), t) : t \in BOOLEAN}

\* C23 as stated: the report is the mean of mastery over exactly the pool items
\* that have a record (items without a record do not enter the denominator), is
\* 0.0 for an empty pool, and computing it changes no state
C23_AverageOverRecorded ==
    lastOp.op = "average" =>
        /\ lastOp.value \in mean_over({i \in DOMAIN df_f : df_f[i] \in DOMAIN kanji_stats})
        /\ Len(df_f) = 0 => lastOp.value = 0
        /\ kanji_stats = lastOp.before

\* C23 amended: the report is the mean, rounded to 3 decimals, of mastery over
\* every pool item with a kanji key, an item without a record counting as mastery
\* 0.0; it is 0.0 for an empty pool, and computing it changes no state
C23_AverageOverPool ==
    lastOp.op = "average" =>
        /\ lastOp.value \in mean_over({i \in DOMAIN df_f : df_f[i] # ""})
        /\ Len(df_f) = 0 => lastOp.value = 0
        /\ kanji_stats = lastOp.before
        /\ DOMAIN kanji_stats = DOMAIN lastOp.before

\* Pool k1, k2, k3 and a row without a key; k1 at 33.34, k2 at 100.0, no record
\* for k3: the report is 133.34 / 3 = 44.447, not 66.67
C23_Witness ==
    /\ lastOp.op = "average"
    /\ df_f = <<"k1", "k2", "k3", "">>
    /\ drillFilters.system = "JLPT"
    /\ DOMAIN kanji_stats = {"k1", "k2"}
    /\ kanji_stats["k1"]["JLPT"]["Meaning:multiple_choice"]["mastery"] = 3334
    /\ kanji_stats["k2"]["JLPT"]["Meaning:multiple_choice"]["mastery"] = 10000
    /\ lastOp.value = 44447

-----------------------------------------------------------------------------
(* SpecFallback: DrillStart on stores read from a damaged stats document,  *)
(* on which the weight of a row cannot be computed                         *)

MaxFallbackPool == 6    \* rows of the largest pool

\* A record whose counts make r + w + 2.0 zero
damaged_entry ==
    [total_encounters |-> 0,
     JLPT |-> [md \in Modes |-> [bucket_defaults EXCEPT !["pw_right"] = -2]],
     WaniKani |-> [md \in Modes |-> bucket_defaults]]

\* Stores without a record, and with a damaged record at one row of the pool
\* beside a sound one at the row before it
FallbackStores(df) ==
    {EmptyStore} \cup
    { [k \in {df[i]} |-> damaged_entry] : i \in DOMAIN df } \cup
    { [k \in {df[i - 1], df[i]} |-> IF k = df[i] THEN damaged_entry
                                    ELSE loaded_entry(5000, 0, 4, 0)] :
        i \in (DOMAIN df) \ {1} }

InitFallback ==
    /\ \E n \in 0..MaxFallbackPool : df_f = tier_pool(n)
    /\ \E count \in {4, 5}, pw \in BOOLEAN :
          /\ count <= Max(4, Len(df_f))
          /\ drillFilters = [DefaultFilters EXCEPT !.count = count, !.max_count = Len(df_f),
                                                   !.prioritize_weakness = pw]
    /\ kanji_stats \in FallbackStores(df_f)
    /\ stats_file = Saved(kanji_stats)
    /\ profile_data = load_or_create_profile(Missing)
    /\ profile_file = Saved(profile_data)
    /\ meaning_mode \in {"multiple_choice", "writing"}
    /\ reading_type = "kunyomi"
    /\ currentSample = <<>>
    /\ currentQuestionIndex = 0
    /\ totalQuestions = 0
    /\ currentRow = "None"
    /\ answer_buttons = "absent"
    /\ meaning_input = "absent"
    /\ question_widget = "none"
    /\ page = 1
    /\ timers = <<>>
    /\ pw_current_session_id = 0
    /\ pw_cooldown_sessions = 0
    /\ session_results = <<>>
    /\ sessionState = "Idle"
    /\ answered = {}
    /\ sessionOrdinal = 0
    /\ nAnswers = 0
    /\ nRestarts = 0
    /\ nChanges = 0
    /\ nBacks = 0
    /\ lastOp = NoOp

\* The Drill button pressed once
NextFallback == sessionOrdinal = 0 /\ lastOp = NoOp /\ DrillStartOn(df_f)

SpecFallback == InitFallback /\ [][NextFallback]_vars

\* C24: if weighted sampling fails, DrillStart still obtains a sample of the
\* requested number of distinct pool items through uniform sampling and the
\* session starts: the failure does not surface as an error or abort the start
C24_FallbackStartsSession ==
    [][lastOp'.op = "DrillStart"
          /\ drillFilters.prioritize_weakness
          /\ Len(df_f') >= 4
          /\ first_raising_row(df_f', kanji_stats, drillFilters, meaning_mode,
                               reading_type) > 0
          => /\ lastOp'.ok
             /\ Len(currentSample') = Min(Max(4, drillFilters.count), Len(df_f'))
             /\ \A a, b \in DOMAIN currentSample' :
                   a # b => currentSample'[a] # currentSample'[b]
             /\ Range(currentSample') \subseteq Range(df_f')
             /\ currentRow' = currentSample'[1]
             /\ totalQuestions' = Len(currentSample')
             /\ sessionState' = "InProgress"
             /\ page' = 2]_vars

\* Pool of 6, 5 requested, the weight of the third row raises: the session runs on
\* 5 rows, and records were created for the rows weighted before the failure
C24_Witness ==
    /\ lastOp.op = "DrillStart"
    /\ lastOp.ok
    /\ drillFilters.prioritize_weakness
    /\ Len(df_f) = 6
    /\ "3" \in DOMAIN kanji_stats
    /\ kanji_stats["3"]["JLPT"]["Meaning:multiple_choice"]["pw_right"] = -2
    /\ {"1", "2"} \subseteq DOMAIN kanji_stats
    /\ "4" \notin DOMAIN kanji_stats
    /\ Len(currentSample) = 5
    /\ sessionState = "InProgress"

-----------------------------------------------------------------------------
(* SpecCertify: one item answered from an empty store until it is          *)
(* certified, and past that                                                *)

MaxClimb == 264     \* answers in one run (262 right answers certify a Reading bucket)

MaxOthers == 1      \* answers in one run other than a right one under prioritization
                    \* that follows the answer before it directly

InitCertify ==
    /\ AtRest
    /\ kanji_stats = EmptyStore
    /\ profile_data = load_or_create_profile(Missing)
    /\ drillFilters = [DefaultFilters EXCEPT !.drill = "Reading"]
    /\ df_f = <<>>
    /\ currentSample = <<>>

othersSoFar == IF lastOp.op = "init" THEN 0 ELSE lastOp.others

\* One answer to k1, after the question counter has advanced by gap through
\* answers to other items
CertifyAnswer(gap, pw, is_correct, tieUp) ==
    /\ nAnswers < MaxClimb
    /\ LET plain   == gap = 0 /\ pw /\ is_correct
           filters == [drillFilters EXCEPT !.prioritize_weakness = pw]
           prof    == [profile_data EXCEPT !.pw_question_counter = @ + gap]
           u       == update_stats_and_profile(kanji_stats, prof, filters, meaning_mode,
                                               reading_type, pw_current_session_id,
                                               "k1", is_correct, tieUp)
       IN  /\ ~plain => othersSoFar < MaxOthers
           /\ kanji_stats' = u.stats
           /\ profile_data' = u.prof
           /\ drillFilters' = filters
           /\ lastOp' = [op |-> "answer", correct |-> is_correct, pw |-> pw, gap |-> gap,
                         others |-> othersSoFar + (IF plain THEN 0 ELSE 1)]
    /\ nAnswers' = nAnswers + 1
    /\ UNCHANGED <<df_f, currentSample>>
    /\ StayAtRest

NextCertify ==
    \E gap \in {0, 20, 200}, pw \in BOOLEAN, is_correct \in BOOLEAN, tieUp \in BOOLEAN :
        CertifyAnswer(gap, pw, is_correct, tieUp)

SpecCertify == InitCertify /\ [][NextCertify]_vars

\* C29: from an empty store, in every reachable state a bucket with mastery = 100
\* has mastery_streak >= 7 and its item has total_encounters >= 25, after decay
\* and after answers given with prioritization disabled included
C29_CertifiedKeepsGate ==
    \A k \in DOMAIN kanji_stats : \A sysn \in Systems : \A md \in Modes :
        kanji_stats[k][sysn][md]["mastery"] = 10000
        => /\ kanji_stats[k][sysn][md]["mastery_streak"] >= 7
           /\ kanji_stats[k]["total_encounters"] >= 25

\* The bucket was certified by its 262nd right answer; a wrong answer given with
\* prioritization disabled then reset streak and left mastery and mastery_streak
C29_Witness ==
    /\ lastOp.op = "answer"
    /\ ~lastOp.pw
    /\ ~lastOp.correct
    /\ kanji_stats["k1"]["JLPT"]["Reading:kunyomi"]["mastery"] = 10000
    /\ kanji_stats["k1"]["JLPT"]["Reading:kunyomi"]["mastery_streak"] = 262
    /\ kanji_stats["k1"]["JLPT"]["Reading:kunyomi"]["streak"] = 0
    /\ kanji_stats["k1"]["total_encounters"] = 263

====
